---- MODULE Spec2Model ----
(***************************************************************************)
(* examples/01_tutorials/plot_single_subject_single_run.py                 *)
(*                                                                         *)
(* The tutorial script as a state machine.  The state is the module        *)
(* namespace of the Python process (ns), the part of the filesystem the    *)
(* script touches (fs: the output directory and the downloaded dataset),   *)
(* the position in the script (pc) and a record of    *)
(* the statements executed so far (log).  Every statement group of the     *)
(* script is one action, and a group changes the state at most in its      *)
(* first call; a statement that raises ends the run, because               *)
(* the script has no try/except.  A finished or failed run may be followed *)
(* by another run of the script in the same working directory.             *)
(*                                                                         *)
(* Values computed by the external libraries (images, statistical maps,    *)
(* thresholds, tables) are symbolic records that remember which call       *)
(* produced them and from which arguments.                                 *)
(***************************************************************************)
EXTENDS Integers, Sequences, FiniteSets, TLC

VARIABLES pc, ns, fs, log, run, prev, fs0, failedAt

vars == <<pc, ns, fs, log, run, prev, fs0, failedAt>>

\* How many times the script is run in the same working directory.
MaxRuns == 2

----------------------------------------------------------------------------
\* Parameters and literals of the script

\* docstring, line 12: "96 scans were acquired"
NScans == 96

\* FirstLevelModel(t_r=7, ...)
TR == 7

\* FirstLevelModel(..., period_cut=160)
PeriodCut == 160

\* get_clusters_table(..., cluster_threshold=20)
TableClusterThreshold == 20

\* map_threshold(..., cluster_threshold=10)
MapClusterThreshold == 10

Unbound == [kind |-> "unbound"]

IsBound(v) == v.kind # "unbound"

\* The block paradigm, as the script documents the content of
\* auditory_block_paradigm.csv (columns duration, onset, trial_type).
Row(d, o, t) == [duration |-> d, onset |-> o, trial_type |-> t]

ParadigmRows ==
    << Row(42,   0, "rest"),   Row(42,  42, "active"),
       Row(42,  84, "rest"),   Row(42, 126, "active"),
       Row(42, 168, "rest"),   Row(42, 210, "active"),
       Row(42, 252, "rest"),   Row(42, 294, "active"),
       Row(42, 336, "rest"),   Row(42, 378, "active"),
       Row(42, 420, "rest"),   Row(42, 462, "active"),
       Row(42, 504, "rest"),   Row(42, 546, "active"),
       Row(42, 588, "rest"),   Row(42, 630, "active") >>

\* (faulty variant: the last block starts one scan late)
ParadigmRowsShifted ==
    [i \in 1..Len(ParadigmRows) |->
        IF i = Len(ParadigmRows)
        THEN Row(42, ParadigmRows[i].onset + TR, ParadigmRows[i].trial_type)
        ELSE ParadigmRows[i]]

Paradigm == ParadigmRows

\* pd.read_csv: a table whose rows are the rows of the file, in file order.
read_csv(rows) == [kind |-> "DataFrame", rows |-> rows]

----------------------------------------------------------------------------
\* numpy arrays: a shape and the elements in row-major order.  The weights
\* of the script are 0., 1. and -1., kept as integers.

array(list) == [kind |-> "ndarray", shape |-> <<Len(list)>>, data |-> list]

\* a - b for arrays of the same shape
ArrSub(a, b) ==
    [kind |-> "ndarray", shape |-> a.shape,
     data |-> [i \in 1..Len(a.data) |-> a.data[i] - b.data[i]]]

\* np.vstack((a, b)) of two 1-D arrays of the same length
vstack(a, b) ==
    [kind |-> "ndarray", shape |-> <<2, a.shape[1]>>, data |-> a.data \o b.data]

\* conditions = {'active': array([1., 0., ...]), 'rest': array([0., 1., ...])}
Conditions ==
    [kind |-> "dict",
     active |-> array(<<1, 0, 0, 0, 0, 0, 0, 0, 0, 0>>),
     rest   |-> array(<<0, 1, 0, 0, 0, 0, 0, 0, 0, 0>>)]

----------------------------------------------------------------------------
\* compute_contrast with stat_type left to the library: a one-row contrast
\* is a t-test, a contrast of several rows an F-test.
StatType(contrast) == IF Len(contrast.shape) = 1 THEN "t" ELSE "F"

----------------------------------------------------------------------------
\* Library calls of the script, as symbolic values

\* FirstLevelModel(t_r=7, noise_model='ar1', standardize=False,
\*                 hrf_model='spm', drift_model='cosine', period_cut=160)
FirstLevelModel ==
    [kind |-> "glm", t_r |-> TR, noise_model |-> "ar1", standardize |-> FALSE,
     hrf_model |-> "spm", drift_model |-> "cosine", period_cut |-> PeriodCut,
     fitted |-> FALSE, run_img |-> Unbound, events |-> Unbound]

\* fmri_glm.fit(fmri_img, events): the design matrix is built inside the
\* library from the events and the image; its columns are not modelled.
fit(glm, img, events) ==
    [glm EXCEPT !.fitted = TRUE, !.run_img = img, !.events = events]

\* fmri_glm.compute_contrast(contrast, output_type=...)
compute_contrast(glm, contrast, output_type) ==
    [kind |-> output_type, contrast |-> contrast,
     stat_type |-> StatType(contrast), glm |-> glm]

\* map_threshold(stat_img, threshold=alpha, height_control=hc,
\*               cluster_threshold=ct) returns (thresholded map, threshold)
map_threshold(stat_img, alpha, hc, ct) ==
    [map |-> [kind |-> "thresholded_map", of |-> stat_img, alpha |-> alpha,
              height_control |-> hc, cluster_threshold |-> ct],
     threshold |-> [kind |-> "threshold", of |-> stat_img, alpha |-> alpha,
                    height_control |-> hc, cluster_threshold |-> ct]]

\* get_clusters_table(stat_img, stat_threshold=..., cluster_threshold=...)
get_clusters_table(stat_img, stat_threshold, cluster_threshold) ==
    [kind |-> "clusters_table", stat_img |-> stat_img,
     stat_threshold |-> stat_threshold, cluster_threshold |-> cluster_threshold]

----------------------------------------------------------------------------
\* The filesystem: whether the directory 'results' exists, its files, and
\* whether the dataset volumes are on disk (and which run put them there).

join(a, b) == a \o "/" \o b

OutDir == "results"

\* file names given to to_filename and to_csv
ZMapName == "active_vs_rest_z_map.nii.gz"

EffMapName == "active_vs_rest_eff_map.nii.gz"

TableName == "table.csv"

\* the paths of the three outputs, and a file of the directory that the
\* script never names
ZMapPath == "results/active_vs_rest_z_map.nii.gz"

EffMapPath == "results/active_vs_rest_eff_map.nii.gz"

TablePath == "results/table.csv"

OtherPath == "results/other.nii.gz"

NoFiles == [p \in {} |-> Unbound]

\* os.path.exists(outdir)
exists(f) == f.dir

\* os.mkdir(outdir)
mkdir(f) == [f EXCEPT !.dir = TRUE]

\* writing a file creates it or replaces its content
Write(f, path, format, data) ==
    [f EXCEPT !.files =
        (path :> [format |-> format, writer |-> run, data |-> data]) @@ f.files]

FormatOf(path) == IF path = TablePath THEN "csv" ELSE "nifti"

\* content left in the directory by something earlier than the first run
Stale(path) ==
    [format |-> FormatOf(path), writer |-> 0, data |-> [kind |-> "stale"]]

\* fetch_spm_auditory is a "data downloading function": it returns the
\* names of the image files of the dataset, downloading them when they are
\* not on disk yet.
NotDownloaded == [present |-> FALSE, writer |-> 0]

Downloaded(by) == [present |-> TRUE, writer |-> by]

download(f) ==
    IF f.dataset.present THEN f ELSE [f EXCEPT !.dataset = Downloaded(run)]

InitialFilesystems ==
    {[dir |-> FALSE, files |-> NoFiles, dataset |-> d] :
        d \in {NotDownloaded, Downloaded(0)}} \cup
    {[dir |-> TRUE, files |-> [p \in S |-> Stale(p)], dataset |-> d] :
        S \in SUBSET {ZMapPath, EffMapPath, TablePath, OtherPath},
        d \in {NotDownloaded, Downloaded(0)}}

----------------------------------------------------------------------------
\* The namespace before the first statement

EmptyNamespace ==
    [subject_data |-> Unbound, fmri_img |-> Unbound, mean_img |-> Unbound,
     events |-> Unbound, fmri_glm |-> Unbound, design_matrix |-> Unbound,
     conditions |-> Unbound, active_minus_rest |-> Unbound,
     eff_map |-> Unbound, z_map |-> Unbound, threshold |-> Unbound,
     clean_map |-> Unbound, outdir |-> Unbound, table |-> Unbound,
     effects_of_interest |-> Unbound]

Init ==
    /\ pc = "fetch"
    /\ ns = EmptyNamespace
    /\ fs \in InitialFilesystems
    /\ fs0 = fs
    /\ log = <<>>
    /\ run = 1
    /\ prev = "none"
    /\ failedAt = "none"

\* Statement `step` is executed with `arg` (what the claim-relevant argument
\* was bound to) and control passes to `next`.
Advance(step, arg, next) ==
    /\ pc = step
    /\ pc' = next
    /\ log' = Append(log, [step |-> step, arg |-> arg])
    /\ UNCHANGED <<run, prev, fs0, failedAt>>

Bind(name, value) == ns' = [ns EXCEPT ![name] = value]

GlmState(g) ==
    IF g.kind = "glm" THEN (IF g.fitted THEN "fitted" ELSE "unfitted") ELSE g.kind

----------------------------------------------------------------------------
\* Statements, in source order

\* from nistats.datasets import fetch_spm_auditory
\* subject_data = fetch_spm_auditory()
FetchDataset ==
    /\ Advance("fetch", "-", "print_func")
    /\ Bind("subject_data", [kind |-> "dataset", n_func |-> NScans])
    /\ fs' = download(fs)

\* print(subject_data.func)
PrintFunc ==
    /\ Advance("print_func", ns.subject_data.kind, "plot_img")
    /\ UNCHANGED <<ns, fs>>

\* plot_img(subject_data.func[0])
PlotImg ==
    /\ Advance("plot_img", ns.subject_data.kind, "plot_anat")
    /\ UNCHANGED <<ns, fs>>

\* plot_anat(subject_data.anat)
PlotAnat ==
    /\ Advance("plot_anat", ns.subject_data.kind, "import_image")
    /\ UNCHANGED <<ns, fs>>

\* from nilearn.image import concat_imgs, mean_img
ImportImage ==
    /\ Advance("import_image", "-", "concat_imgs")
    /\ Bind("mean_img", [kind |-> "function"])
    /\ UNCHANGED fs

\* fmri_img = concat_imgs(subject_data.func)
ConcatImgs ==
    /\ Advance("concat_imgs", ns.subject_data.kind, "mean_img")
    /\ Bind("fmri_img", [kind |-> "img4d", n_scans |-> ns.subject_data.n_func])
    /\ UNCHANGED fs

\* mean_img = mean_img(fmri_img)
\* (faulty variant: the result is not bound to the name mean_img)
MeanImgKeepsName ==
    /\ Advance("mean_img", ns.mean_img.kind, "read_csv")
    /\ UNCHANGED <<ns, fs>>

MeanImg ==
    /\ Advance("mean_img", ns.mean_img.kind, "read_csv")
    /\ Bind("mean_img", [kind |-> "image", of |-> ns.fmri_img])
    /\ UNCHANGED fs

\* import pandas as pd; events = pd.read_csv('auditory_block_paradigm.csv')
ReadEvents ==
    /\ Advance("read_csv", "-", "print_events")
    /\ Bind("events", read_csv(Paradigm))
    /\ UNCHANGED fs

\* print(events)
PrintEvents ==
    /\ Advance("print_events", ns.events.kind, "FirstLevelModel")
    /\ UNCHANGED <<ns, fs>>

\* fmri_glm = FirstLevelModel(...)
BuildModel ==
    /\ Advance("FirstLevelModel", "-", "fit")
    /\ Bind("fmri_glm", FirstLevelModel)
    /\ UNCHANGED fs

\* fmri_glm = fmri_glm.fit(fmri_img, events)
Fit ==
    /\ Advance("fit", GlmState(ns.fmri_glm), "design_matrix")
    /\ Bind("fmri_glm", fit(ns.fmri_glm, ns.fmri_img, ns.events))
    /\ UNCHANGED fs

\* design_matrix = fmri_glm.design_matrices_[0]
DesignMatrix ==
    /\ Advance("design_matrix", GlmState(ns.fmri_glm), "plot_design_matrix")
    /\ Bind("design_matrix",
            [kind |-> "design_matrix", of |-> ns.fmri_glm])
    /\ UNCHANGED fs

\* plot_design_matrix(design_matrix); plt.show()
PlotDesignMatrix ==
    /\ Advance("plot_design_matrix", ns.design_matrix.kind, "plot_regressor")
    /\ UNCHANGED <<ns, fs>>

\* plt.plot(design_matrix['active']); plt.xlabel; plt.title; plt.show()
PlotRegressor ==
    /\ Advance("plot_regressor", ns.design_matrix.kind, "conditions")
    /\ UNCHANGED <<ns, fs>>

\* conditions = {'active': array([...]), 'rest': array([...])}
DefineConditions ==
    /\ Advance("conditions", "-", "active_minus_rest")
    /\ Bind("conditions", Conditions)
    /\ UNCHANGED fs

\* active_minus_rest = conditions['active'] - conditions['rest']
ActiveMinusRest ==
    /\ Advance("active_minus_rest", ns.conditions.kind, "plot_contrast_matrix")
    /\ Bind("active_minus_rest", ArrSub(ns.conditions.active, ns.conditions.rest))
    /\ UNCHANGED fs

\* plot_contrast_matrix(active_minus_rest, design_matrix=design_matrix)
\* (faulty variant: the two compute_contrast statements are skipped)
PlotContrastMatrixSkipsContrasts ==
    /\ Advance("plot_contrast_matrix", ns.design_matrix.kind, "threshold_fpr")
    /\ UNCHANGED <<ns, fs>>

PlotContrastMatrix ==
    /\ Advance("plot_contrast_matrix", ns.design_matrix.kind, "eff_map")
    /\ UNCHANGED <<ns, fs>>

\* eff_map = fmri_glm.compute_contrast(active_minus_rest,
\*                                     output_type='effect_size')
ComputeEffect ==
    /\ Advance("eff_map", GlmState(ns.fmri_glm), "z_map")
    /\ Bind("eff_map",
            compute_contrast(ns.fmri_glm, ns.active_minus_rest, "effect_size"))
    /\ UNCHANGED fs

\* z_map = fmri_glm.compute_contrast(active_minus_rest, output_type='z_score')
ComputeZ ==
    /\ Advance("z_map", GlmState(ns.fmri_glm), "plot_z3")
    /\ Bind("z_map",
            compute_contrast(ns.fmri_glm, ns.active_minus_rest, "z_score"))
    /\ UNCHANGED fs

\* plot_stat_map(z_map, bg_img=mean_img, threshold=3.0, ...); plt.show()
PlotZ3 ==
    /\ Advance("plot_z3", ns.mean_img.kind, "threshold_fpr")
    /\ UNCHANGED <<ns, fs>>

\* _, threshold = map_threshold(z_map, threshold=.001, height_control='fpr')
ThreshFpr ==
    /\ Advance("threshold_fpr", ns.z_map.kind, "plot_fpr")
    /\ Bind("threshold", map_threshold(ns.z_map, "0.001", "fpr", 0).threshold)
    /\ UNCHANGED fs

\* print(...); plot_stat_map(z_map, bg_img=mean_img, threshold=threshold, ...)
\* plt.show()
PlotFpr ==
    /\ Advance("plot_fpr", ns.mean_img.kind, "threshold_bonferroni")
    /\ UNCHANGED <<ns, fs>>

\* _, threshold = map_threshold(z_map, threshold=.05,
\*                              height_control='bonferroni')
ThreshBonferroni ==
    /\ Advance("threshold_bonferroni", ns.z_map.kind, "plot_bonferroni")
    /\ Bind("threshold", map_threshold(ns.z_map, "0.05", "bonferroni", 0).threshold)
    /\ UNCHANGED fs

\* print(...); plot_stat_map(z_map, bg_img=mean_img, threshold=threshold, ...)
\* plt.show()
PlotBonferroni ==
    /\ Advance("plot_bonferroni", ns.mean_img.kind, "threshold_fdr")
    /\ UNCHANGED <<ns, fs>>

\* _, threshold = map_threshold(z_map, threshold=.05, height_control='fdr')
ThreshFdr ==
    /\ Advance("threshold_fdr", ns.z_map.kind, "plot_fdr")
    /\ Bind("threshold", map_threshold(ns.z_map, "0.05", "fdr", 0).threshold)
    /\ UNCHANGED fs

\* print(...); plot_stat_map(z_map, bg_img=mean_img, threshold=threshold, ...)
\* plt.show()
PlotFdr ==
    /\ Advance("plot_fdr", ns.mean_img.kind, "threshold_fdr_cluster")
    /\ UNCHANGED <<ns, fs>>

\* clean_map, threshold = map_threshold(
\*     z_map, threshold=.05, height_control='fdr', cluster_threshold=10)
\* (faulty variant: the returned threshold is discarded)
ThreshFdrClusterDropsThreshold ==
    /\ Advance("threshold_fdr_cluster", ns.z_map.kind, "plot_clean")
    /\ Bind("clean_map",
            map_threshold(ns.z_map, "0.05", "fdr", MapClusterThreshold).map)
    /\ UNCHANGED fs

ThreshFdrCluster ==
    /\ Advance("threshold_fdr_cluster", ns.z_map.kind, "plot_clean")
    /\ LET r == map_threshold(ns.z_map, "0.05", "fdr", MapClusterThreshold)
       IN  ns' = [ns EXCEPT !.clean_map = r.map, !.threshold = r.threshold]
    /\ UNCHANGED fs

\* plot_stat_map(clean_map, bg_img=mean_img, threshold=threshold, ...)
PlotClean ==
    /\ Advance("plot_clean", ns.mean_img.kind, "outdir")
    /\ UNCHANGED <<ns, fs>>

\* import os; outdir = 'results'
SetOutdir ==
    /\ Advance("outdir", "-", "exists")
    /\ Bind("outdir", [kind |-> "str", value |-> OutDir])
    /\ UNCHANGED fs

\* if not os.path.exists(outdir):
\* (faulty variant: os.mkdir is called unconditionally)
CheckExistsAlwaysMkdir ==
    /\ Advance("exists", "-", "mkdir")
    /\ UNCHANGED <<ns, fs>>

\* (faulty variant: the test is inverted)
CheckExistsInverted ==
    /\ Advance("exists", "-", IF exists(fs) THEN "mkdir" ELSE "save_z")
    /\ UNCHANGED <<ns, fs>>

CheckExists ==
    /\ Advance("exists", "-", IF exists(fs) THEN "save_z" ELSE "mkdir")
    /\ UNCHANGED <<ns, fs>>

\*     os.mkdir(outdir)     (raises when the directory exists: see Raise)
Mkdir ==
    /\ ~exists(fs)
    /\ Advance("mkdir", "-", "save_z")
    /\ fs' = mkdir(fs)
    /\ UNCHANGED ns

\* z_map.to_filename(join(outdir, 'active_vs_rest_z_map.nii.gz'))
SaveZ ==
    /\ Advance("save_z", ns.z_map.kind, "save_eff")
    /\ exists(fs)
    /\ fs' = Write(fs, join(ns.outdir.value, ZMapName), "nifti", ns.z_map)
    /\ UNCHANGED ns

\* eff_map.to_filename(join(outdir, 'active_vs_rest_eff_map.nii.gz'))
\* (faulty variant: the z map is written under the effect map's name)
SaveEffWritesZMap ==
    /\ Advance("save_eff", ns.eff_map.kind, "get_clusters_table")
    /\ exists(fs)
    /\ fs' = Write(fs, join(ns.outdir.value, EffMapName), "nifti", ns.z_map)
    /\ UNCHANGED ns

SaveEff ==
    /\ Advance("save_eff", ns.eff_map.kind, "get_clusters_table")
    /\ exists(fs)
    /\ fs' = Write(fs, join(ns.outdir.value, EffMapName), "nifti", ns.eff_map)
    /\ UNCHANGED ns

\* table = get_clusters_table(z_map, stat_threshold=threshold,
\*                            cluster_threshold=20)
ClustersTable ==
    /\ Advance("get_clusters_table", ns.z_map.kind, "print_table")
    /\ Bind("table",
            get_clusters_table(ns.z_map, ns.threshold, TableClusterThreshold))
    /\ UNCHANGED fs

\* print(table)
PrintTable ==
    /\ Advance("print_table", ns.table.kind, "to_csv")
    /\ UNCHANGED <<ns, fs>>

\* table.to_csv(join(outdir, 'table.csv'))
TableToCsv ==
    /\ Advance("to_csv", ns.table.kind, "effects_of_interest")
    /\ exists(fs)
    /\ fs' = Write(fs, join(ns.outdir.value, TableName), "csv", ns.table)
    /\ UNCHANGED ns

\* effects_of_interest = np.vstack((conditions['active'], conditions['rest']))
EffectsOfInterest ==
    /\ Advance("effects_of_interest", ns.conditions.kind, "plot_F_contrast")
    /\ Bind("effects_of_interest", vstack(ns.conditions.active, ns.conditions.rest))
    /\ UNCHANGED fs

\* plot_contrast_matrix(effects_of_interest, design_matrix); plt.show()
PlotFContrast ==
    /\ Advance("plot_F_contrast", ns.design_matrix.kind, "z_map_F")
    /\ UNCHANGED <<ns, fs>>

\* z_map = fmri_glm.compute_contrast(effects_of_interest,
\*                                   output_type='z_score')
ComputeF ==
    /\ Advance("z_map_F", GlmState(ns.fmri_glm), "show_F")
    /\ Bind("z_map",
            compute_contrast(ns.fmri_glm, ns.effects_of_interest, "z_score"))
    /\ UNCHANGED fs

\* plt.show()
ShowF ==
    /\ Advance("show_F", ns.z_map.kind, "threshold_F")
    /\ UNCHANGED <<ns, fs>>

\* clean_map, threshold = map_threshold(
\*     z_map, threshold=.05, height_control='fdr', cluster_threshold=10)
ThreshF ==
    /\ Advance("threshold_F", ns.z_map.kind, "plot_F")
    /\ LET r == map_threshold(ns.z_map, "0.05", "fdr", MapClusterThreshold)
       IN  ns' = [ns EXCEPT !.clean_map = r.map, !.threshold = r.threshold]
    /\ UNCHANGED fs

\* plot_stat_map(clean_map, bg_img=mean_img, threshold=threshold, ...)
\* plt.show()      (last statement of the script)
\* (faulty variant: the F-test map is saved over the z map)
PlotFThenSavesZ ==
    /\ Advance("plot_F", ns.mean_img.kind, "done")
    /\ fs' = Write(fs, join(ns.outdir.value, ZMapName), "nifti", ns.z_map)
    /\ UNCHANGED ns

PlotF ==
    /\ Advance("plot_F", ns.mean_img.kind, "done")
    /\ UNCHANGED <<ns, fs>>

----------------------------------------------------------------------------
\* Failure of a library call

\* The statements that can raise: every statement that imports or calls
\* into a library, prints, or reads an attribute of a library object; all
\* but `import os; outdir = 'results'` and the os.path.exists test.
Failable ==
    {"fetch", "print_func", "plot_img", "plot_anat", "import_image",
     "concat_imgs", "mean_img", "read_csv", "print_events",
     "FirstLevelModel", "fit", "design_matrix", "plot_design_matrix",
     "plot_regressor", "conditions", "active_minus_rest",
     "plot_contrast_matrix", "eff_map", "z_map", "plot_z3", "threshold_fpr",
     "plot_fpr", "threshold_bonferroni", "plot_bonferroni", "threshold_fdr",
     "plot_fdr", "threshold_fdr_cluster", "plot_clean", "mkdir", "save_z",
     "save_eff", "get_clusters_table", "print_table", "to_csv",
     "effects_of_interest", "plot_F_contrast", "z_map_F", "show_F",
     "threshold_F", "plot_F"}

\* What a failed call may leave on disk: nothing new; for a call that
\* writes a file, a partially written file; for the fetch, the dataset
\* downloaded before the call raised.
Partial == [kind |-> "partial"]

FailureOutcomes(step) ==
    {fs} \cup
    (IF step = "fetch" THEN {download(fs)} ELSE {}) \cup
    (IF step = "save_z" /\ exists(fs)
     THEN {Write(fs, join(ns.outdir.value, ZMapName), "nifti", Partial)} ELSE {}) \cup
    (IF step = "save_eff" /\ exists(fs)
     THEN {Write(fs, join(ns.outdir.value, EffMapName), "nifti", Partial)} ELSE {}) \cup
    (IF step = "to_csv" /\ exists(fs)
     THEN {Write(fs, join(ns.outdir.value, TableName), "csv", Partial)} ELSE {})

\* The exception propagates to the top level: there is no try/except.
\* (faulty variant: the failed statement is tried again)
PropagateRetried ==
    /\ pc' = pc
    /\ failedAt' = pc

Propagate ==
    /\ pc' = "failed"
    /\ failedAt' = pc

Raise ==
    /\ pc \in Failable
    /\ Propagate
    /\ fs' \in FailureOutcomes(pc)
    /\ UNCHANGED <<ns, log, run, prev, fs0>>

\* The script is run again in the same working directory, in a new process.
Restart ==
    /\ pc \in {"done", "failed"}
    /\ run < MaxRuns
    /\ pc' = "fetch"
    /\ ns' = EmptyNamespace
    /\ log' = <<>>
    /\ run' = run + 1
    /\ prev' = pc
    /\ fs0' = fs
    /\ failedAt' = "none"
    /\ UNCHANGED fs

Next ==
    \/ FetchDataset \/ PrintFunc \/ PlotImg \/ PlotAnat \/ ImportImage
    \/ ConcatImgs \/ MeanImg \/ ReadEvents \/ PrintEvents \/ BuildModel \/ Fit \/ DesignMatrix \/ PlotDesignMatrix
    \/ PlotRegressor \/ DefineConditions \/ ActiveMinusRest
    \/ PlotContrastMatrix \/ ComputeEffect \/ ComputeZ \/ PlotZ3
    \/ ThreshFpr \/ PlotFpr \/ ThreshBonferroni \/ PlotBonferroni
    \/ ThreshFdr \/ PlotFdr \/ ThreshFdrCluster \/ PlotClean
    \/ SetOutdir \/ CheckExists \/ Mkdir \/ SaveZ \/ SaveEff
    \/ ClustersTable \/ PrintTable \/ TableToCsv \/ EffectsOfInterest
    \/ PlotFContrast \/ ComputeF \/ ShowF \/ ThreshF \/ PlotF
    \/ Raise \/ Restart

Spec == Init /\ [][Next]_vars

----------------------------------------------------------------------------
\* Vocabulary of the properties

StepsOf(l) == [i \in 1..Len(l) |-> l[i].step]

\* position of the statement in the log of this run, 0 when not executed
Pos(s) ==
    IF \E i \in 1..Len(log) : log[i].step = s
    THEN CHOOSE i \in 1..Len(log) : log[i].step = s
    ELSE 0

Count(s) == Cardinality({i \in 1..Len(log) : log[i].step = s})

\* the statements of the script in the order of the source file
SourceOrder ==
    <<"fetch", "print_func", "plot_img", "plot_anat", "import_image",
      "concat_imgs", "mean_img", "read_csv", "print_events",
      "FirstLevelModel", "fit", "design_matrix", "plot_design_matrix",
      "plot_regressor", "conditions", "active_minus_rest",
      "plot_contrast_matrix", "eff_map", "z_map", "plot_z3", "threshold_fpr",
      "plot_fpr", "threshold_bonferroni", "plot_bonferroni", "threshold_fdr",
      "plot_fdr", "threshold_fdr_cluster", "plot_clean", "outdir", "exists",
      "mkdir", "save_z", "save_eff", "get_clusters_table", "print_table",
      "to_csv", "effects_of_interest", "plot_F_contrast", "z_map_F", "show_F",
      "threshold_F", "plot_F">>

SourceIndex(s) == CHOOSE i \in 1..Len(SourceOrder) : SourceOrder[i] = s

Without(seq, s) == SelectSeq(seq, LAMBDA x : x # s)

IsPrefix(a, b) == Len(a) <= Len(b) /\ \A i \in 1..Len(a) : a[i] = b[i]

ComputeContrastSteps == {"eff_map", "z_map", "z_map_F"}

MapThresholdSteps ==
    {"threshold_fpr", "threshold_bonferroni", "threshold_fdr",
     "threshold_fdr_cluster", "threshold_F"}

PlotStatMapSteps ==
    {"plot_z3", "plot_fpr", "plot_bonferroni", "plot_fdr", "plot_clean", "plot_F"}

FTestSteps ==
    {"effects_of_interest", "plot_F_contrast", "z_map_F", "show_F",
     "threshold_F", "plot_F"}

OutputPaths == {ZMapPath, EffMapPath, TablePath}

\* the output directory alone
Results(f) == [dir |-> f.dir, files |-> f.files]

\* the image files this run has written anywhere on disk
ImagesWrittenAnywhere ==
    {p \in DOMAIN fs.files :
        fs.files[p].writer = run /\ fs.files[p].format = "nifti"}
    \cup (IF fs.dataset.writer = run THEN {"dataset volumes"} ELSE {})

WrittenThisRun(format) ==
    {p \in DOMAIN fs.files :
        fs.files[p].writer = run /\ fs.files[p].format = format}

ActiveMinusRestWeights == <<1, -1, 0, 0, 0, 0, 0, 0, 0, 0>>

IsActiveMinusRest(c) == c.shape = <<10>> /\ c.data = ActiveMinusRestWeights

----------------------------------------------------------------------------
\* C1: the pipeline stages happen in the order fetch, display, concatenate,
\* read events, fit, build contrasts, effect map, z map, FPR, Bonferroni,
\* FDR, FDR with cluster filtering, save z map, save effect map, clusters
\* table, table saved, F-test; a later stage has run only if every earlier
\* one has, no statement runs twice, compute_contrast is only ever called
\* on a fitted model and map_threshold only on an existing z map.
Stages ==
    <<"fetch", "plot_img", "concat_imgs", "read_csv", "fit", "conditions",
      "active_minus_rest", "eff_map", "z_map", "threshold_fpr",
      "threshold_bonferroni", "threshold_fdr", "threshold_fdr_cluster",
      "save_z", "save_eff", "get_clusters_table", "to_csv",
      "effects_of_interest", "z_map_F", "threshold_F">>

C1_PipelineOrder ==
    /\ \A i, j \in 1..Len(Stages) :
          (i < j /\ Pos(Stages[j]) > 0)
              => (Pos(Stages[i]) > 0 /\ Pos(Stages[i]) < Pos(Stages[j]))
    /\ \A k \in 1..Len(log) :
          /\ Count(log[k].step) = 1
          /\ log[k].step \in ComputeContrastSteps => log[k].arg = "fitted"
          /\ log[k].step \in MapThresholdSteps => log[k].arg = "z_score"
    /\ pc \in ComputeContrastSteps => GlmState(ns.fmri_glm) = "fitted"
    /\ pc \in MapThresholdSteps => ns.z_map.kind = "z_score"

C1_Witness ==
    /\ pc = "done"
    /\ Pos("fit") > 0 /\ Pos("fit") < Pos("eff_map")
    /\ Pos("to_csv") < Pos("z_map_F")

\* C2 as stated: a run that completes has written exactly two image files,
\* the z map and the effect map at their two paths, both computed from the
\* same fitted model with the active-minus-rest contrast, and no step of a
\* run writes any other image file.
C2_Original ==
    /\ ImagesWrittenAnywhere \subseteq {ZMapPath, EffMapPath}
    /\ pc = "done" =>
          /\ ImagesWrittenAnywhere = {ZMapPath, EffMapPath}
          /\ fs.files[ZMapPath].data.kind = "z_score"
          /\ fs.files[EffMapPath].data.kind = "effect_size"
          /\ fs.files[ZMapPath].data.glm = fs.files[EffMapPath].data.glm
          /\ fs.files[ZMapPath].data.contrast = fs.files[EffMapPath].data.contrast
          /\ IsActiveMinusRest(fs.files[ZMapPath].data.contrast)

\* C2 amended: the only image files a run writes besides the z map and the
\* effect map are the dataset volumes, which the fetch statement writes and
\* only when they were not on disk; a run that completes has written the z
\* map and the effect map at their two paths, both computed from the same
\* fitted model with the active-minus-rest contrast.
C2_TwoImages ==
    /\ WrittenThisRun("nifti") \subseteq {ZMapPath, EffMapPath}
    /\ ImagesWrittenAnywhere \subseteq {ZMapPath, EffMapPath, "dataset volumes"}
    /\ fs.dataset.writer = run =>
          /\ ~fs0.dataset.present
          /\ Pos("fetch") > 0 \/ failedAt = "fetch"
    /\ (Pos("fetch") > 0 /\ fs0.dataset.present) => fs.dataset = fs0.dataset
    /\ pc = "done" =>
          /\ WrittenThisRun("nifti") = {ZMapPath, EffMapPath}
          /\ LET z == fs.files[ZMapPath].data
                 e == fs.files[EffMapPath].data
             IN  /\ z.kind = "z_score"
                 /\ e.kind = "effect_size"
                 /\ z.glm = e.glm
                 /\ z.glm.fitted
                 /\ z.contrast = e.contrast
                 /\ IsActiveMinusRest(z.contrast)

C2_Witness ==
    /\ pc = "done"
    /\ ZMapPath \in WrittenThisRun("nifti")
    /\ EffMapPath \in WrittenThisRun("nifti")
    /\ OtherPath \in DOMAIN fs.files
    /\ fs.dataset.writer = run

\* C3: once a run has saved the table, results/table.csv is the only text
\* file it has written and holds the clusters table of the active-minus-rest
\* z map, thresholded at the threshold returned by the last map_threshold
\* call before it (FDR at 0.05 with cluster_threshold=10) and with minimum
\* cluster size 20.
C3_ClustersTable ==
    /\ WrittenThisRun("csv") \subseteq {TablePath}
    /\ Pos("to_csv") > 0 =>
          /\ WrittenThisRun("csv") = {TablePath}
          /\ LET t == fs.files[TablePath].data
             IN  /\ t.kind = "clusters_table"
                 /\ t.stat_img.kind = "z_score"
                 /\ IsActiveMinusRest(t.stat_img.contrast)
                 /\ t.stat_threshold.kind = "threshold"
                 /\ t.stat_threshold.height_control = "fdr"
                 /\ t.stat_threshold.alpha = "0.05"
                 /\ t.stat_threshold.cluster_threshold = 10
                 /\ t.stat_threshold.of = t.stat_img
                 /\ t.cluster_threshold = 20
          /\ \A s \in MapThresholdSteps :
                (Pos(s) > 0 /\ Pos(s) < Pos("get_clusters_table"))
                    => Pos(s) <= Pos("threshold_fdr_cluster")

C3_Witness ==
    /\ pc = "done"
    /\ TablePath \in WrittenThisRun("csv")
    /\ Pos("threshold_fdr") > 0
    /\ Pos("threshold_fdr_cluster") < Pos("get_clusters_table")

\* C4: a library call that raises stops the run at that statement: the run
\* is over, the failed statement and every later one have not run, nothing
\* ran twice, and a failure at or before the thresholding statements leaves
\* the output directory as the run found it (not created, no file written).
C4_FailureStops ==
    failedAt # "none" =>
        /\ pc = "failed"
        /\ failedAt \in Failable
        /\ \A k \in 1..Len(log) :
              /\ SourceIndex(log[k].step) < SourceIndex(failedAt)
              /\ Count(log[k].step) = 1
        /\ SourceIndex(failedAt) <= SourceIndex("plot_clean")
              => Results(fs) = Results(fs0)

C4_Witness ==
    /\ pc = "failed"
    /\ failedAt = "threshold_fdr_cluster"
    /\ ~fs.dir
    /\ DOMAIN fs.files = {}

\* C5 as stated: in every run that completes, every statement of the script
\* has executed exactly once, in source order, whatever the filesystem was.
C5_Original ==
    pc = "done" => StepsOf(log) = SourceOrder

\* C5 amended: the statements executed form a prefix of the source order,
\* with os.mkdir left out exactly when the directory existed at the start
\* of the run; os.mkdir is reached only when the directory is absent; a run
\* that completes has executed every other statement exactly once.
ExpectedTrace ==
    IF fs0.dir THEN Without(SourceOrder, "mkdir") ELSE SourceOrder

C5_LinearButMkdir ==
    /\ IsPrefix(StepsOf(log), ExpectedTrace)
    /\ pc = "mkdir" => ~fs0.dir
    /\ pc = "done" =>
          /\ StepsOf(log) = ExpectedTrace
          /\ Len(log) = Len(SourceOrder) - (IF fs0.dir THEN 1 ELSE 0)

C5_Witness ==
    /\ pc = "done"
    /\ fs0.dir
    /\ Count("mkdir") = 0
    /\ Count("exists") = 1

\* C6: the events table has sixteen rows of 42 s, the first 'rest' at onset
\* 0, trial types alternating rest/active, each onset the previous onset
\* plus the previous duration, covering 672 s = 96 scans of 7 s, 6 scans a
\* block.
C6_Paradigm ==
    IsBound(ns.events) =>
        LET r == ns.events.rows
        IN  /\ Len(r) = 16
            /\ \A i \in 1..Len(r) :
                  /\ r[i].duration = 42
                  /\ r[i].duration = 6 * TR
                  /\ r[i].trial_type = (IF i % 2 = 1 THEN "rest" ELSE "active")
            /\ r[1].onset = 0
            /\ \A i \in 1..(Len(r) - 1) :
                  /\ r[i + 1].onset = r[i].onset + r[i].duration
                  /\ r[i].onset < r[i + 1].onset
            /\ r[Len(r)].onset + r[Len(r)].duration = 672
            /\ r[Len(r)].onset + r[Len(r)].duration = NScans * TR

C6_Witness ==
    /\ pc = "FirstLevelModel"
    /\ IsBound(ns.events)
    /\ Len(ns.events.rows) = 16

\* C8: in a run that starts where a completed run left the directory and
\* its three files, os.mkdir is neither reached nor the place of a failure,
\* and when the run completes the directory holds the same files as before,
\* the three outputs rewritten by this run with the same content.
C8_SecondRun ==
    (run >= 2 /\ prev = "done") =>
        /\ fs0.dir
        /\ OutputPaths \subseteq DOMAIN fs0.files
        /\ pc # "mkdir"
        /\ failedAt # "mkdir"
        /\ Count("mkdir") = 0
        /\ pc = "done" =>
              /\ fs.dir
              /\ DOMAIN fs.files = DOMAIN fs0.files
              /\ {p \in DOMAIN fs.files : fs.files[p].writer >= 1} = OutputPaths
              /\ \A p \in OutputPaths :
                    /\ fs.files[p].writer = run
                    /\ fs0.files[p].writer = run - 1
                    /\ fs.files[p].data = fs0.files[p].data
                    /\ fs.files[p].format = fs0.files[p].format

C8_Witness ==
    /\ run >= 2
    /\ prev = "done"
    /\ pc = "done"
    /\ Count("exists") = 1
    /\ \A p \in OutputPaths : fs.files[p].writer = run

\* C9: no F-test statement changes the filesystem; z_map is rebound to the
\* F-test map only after the two images and the table have been written,
\* and at the end of a run the files hold the active-minus-rest results
\* while the names z_map and threshold hold the F-test results, which are
\* in no file.
C9_State ==
    /\ (IsBound(ns.z_map) /\ ns.z_map.stat_type = "F") =>
          /\ Pos("save_z") > 0 /\ Pos("save_eff") > 0 /\ Pos("to_csv") > 0
          /\ Pos("to_csv") < Pos("z_map_F")
          /\ OutputPaths \subseteq DOMAIN fs.files
          /\ \A p \in OutputPaths : fs.files[p].writer = run
    /\ pc = "done" =>
          /\ ns.z_map.stat_type = "F"
          /\ ns.z_map.contrast = ns.effects_of_interest
          /\ ns.threshold.of = ns.z_map
          /\ ns.clean_map.of = ns.z_map
          /\ fs.files[ZMapPath].data.stat_type = "t"
          /\ IsActiveMinusRest(fs.files[ZMapPath].data.contrast)
          /\ IsActiveMinusRest(fs.files[EffMapPath].data.contrast)
          /\ fs.files[TablePath].data.stat_img = fs.files[ZMapPath].data
          /\ fs.files[TablePath].data.stat_threshold.of = fs.files[ZMapPath].data
          /\ \A p \in DOMAIN fs.files : fs.files[p].data # ns.z_map

C9_FTestKeepsFiles ==
    /\ []C9_State
    /\ [][(pc \in FTestSteps) => (fs' = fs)]_vars

C9_Witness ==
    /\ pc = "done"
    /\ ns.z_map.stat_type = "F"
    /\ fs.files[ZMapPath].writer = run
    /\ fs.files[ZMapPath].data.stat_type = "t"

\* C10: the name mean_img is called once, while it is bound to the
\* function; every plot_stat_map call comes after that and receives the
\* image as bg_img; a run that completes has made six such calls.
C10_MeanImgRebinding ==
    /\ Count("mean_img") <= 1
    /\ pc = "mean_img" => ns.mean_img.kind = "function"
    /\ pc \in PlotStatMapSteps => ns.mean_img.kind = "image"
    /\ \A k \in 1..Len(log) :
          /\ log[k].step = "mean_img" => log[k].arg = "function"
          /\ log[k].step \in PlotStatMapSteps =>
                /\ log[k].arg = "image"
                /\ Pos("mean_img") > 0 /\ Pos("mean_img") < k
    /\ pc = "done" =>
          /\ Count("mean_img") = 1
          /\ Cardinality({k \in 1..Len(log) : log[k].step \in PlotStatMapSteps}) = 6

C10_Witness ==
    /\ pc = "done"
    /\ ns.mean_img.kind = "image"
    /\ \A s \in PlotStatMapSteps : Pos(s) > Pos("mean_img")

====
